---- MODULE Spec2Model ----
(***************************************************************************)
(* Canonicalization of tensorial factors (drudge/canon.py).                *)
(*                                                                         *)
(* canon_factors(sums, factors, symms) builds an Eldag (one SUM node per   *)
(* summation, one EXPR node per index of each factor, one FACTOR node per  *)
(* factor), hands it to the external graph canonicalizer and assembles the *)
(* canonical summations, factors and coefficient from its answer.          *)
(*                                                                         *)
(* Node indices, edge positions and permutation images are 0-based, as in  *)
(* the source; TLA+ sequences are 1-based, so node n is entry n + 1.       *)
(***************************************************************************)
EXTENDS Integers, Sequences, FiniteSets

\* Bounds of the model.
MaxSums == 3
MaxFactors == 2
MaxArity == 2
MaxNodes == 6
MaxCoeff == 2

\* Actions (canon.py:23-25).
IDENT == 0
NEG == 1
CONJ == 2

\* Node labels (canon.py:87-89).
_SUM == 0
_EXPR == 1
_FACTOR == 2

\* The number of summed dummies in one index above which _proc_indices
\* warns (canon.py:248).
WarnAbove == 2

VARIABLES
    pc,            \* position of canon_factors: start, sums, factors, built, done, raised
    sums,          \* the summations: sequence of [sym, range]
    factors,       \* the factor/colour pairs: sequence of [factor, colour]
    symms,         \* the symmetry table: the set of keys it holds
    eldag,         \* the Eldag under construction (edges, ia, symms, colours)
    factor_idxes,  \* _build_eldag: node of each factor processed so far
    index_nodes,   \* _proc_indices: `nodes` of the factor being processed
    canon_calls,   \* number of calls of the graph canonicalizer
    node_order,    \* canonicalizer result: canonical node order
    perms,         \* canonicalizer result: per-node permutation or None
    sums_res,      \* returned summations
    factors_res,   \* returned factors
    coeff          \* returned coefficient

vars == <<pc, sums, factors, symms, eldag, factor_idxes, index_nodes,
          canon_calls, node_order, perms, sums_res, factors_res, coeff>>

(***************************************************************************)
(* Generic helpers.                                                        *)
(***************************************************************************)

\* range(n) as a sequence: <<0, ..., n - 1>>.
Range0(n) == [i \in 1..n |-> i - 1]

\* The sequence s without its i-th entry.
Without(s, i) == [j \in 1..(Len(s) - 1) |-> IF j < i THEN s[j] ELSE s[j + 1]]

RECURSIVE Concat(_)
\* Concatenation of a sequence of sequences.
Concat(ss) == IF ss = <<>> THEN <<>> ELSE Head(ss) \o Concat(Tail(ss))

RECURSIVE Permutations(_)
\* itertools.permutations(s): every ordering of the entries of s, in
\* lexicographic order of the positions in s.
Permutations(s) ==
    IF Len(s) = 0 THEN << <<>> >>
    ELSE Concat([i \in 1..Len(s) |->
            LET rest == Permutations(Without(s, i))
            IN  [k \in 1..Len(rest) |-> <<s[i]>> \o rest[k]]])

\* The entries of a sequence, as a set.
Elems(s) == {s[i] : i \in 1..Len(s)}

\* Every sequence that lists the finite set S once each.
Orderings(S) ==
    {q \in [1..Cardinality(S) -> S] : \A i, j \in 1..Cardinality(S) : q[i] = q[j] => i = j}

(***************************************************************************)
(* Values.                                                                 *)
(*                                                                         *)
(* A symbol is a number: 0 is a symbol that is never summed, 1..MaxSums    *)
(* are the symbols summations may bind.  An index expression is a linear   *)
(* form over the symbols, kept as its coefficients; the symbols that occur *)
(* in it (expr.atoms(Symbol)) are those with a non-zero coefficient.       *)
(***************************************************************************)

Syms == 0..MaxSums

Exprs == [Syms -> 0..MaxCoeff]

Atoms(expr) == {x \in Syms : expr[x] # 0}

\* None, for node symmetries and for canonicalizer results.
NoKey == [base |-> "", n |-> -1]
None == [kind |-> "None", gens |-> <<>>, key |-> NoKey]

\* Group(gens) built by _proc_indices.
Group(gens) == [kind |-> "Group", gens |-> gens, key |-> NoKey]

\* Keys of the symmetry table: `base` or `(base, n)`.
BaseKey(base) == [base |-> base, n |-> -1]
ArityKey(base, n) == [base |-> base, n |-> n]

\* symms[key]: the group the table stores under the key.
TableGet(key) == [kind |-> "Symm", gens |-> <<>>, key |-> key]

\* Perm(pre) with accumulated action acc, and the absent result.
Perm(pre, acc) == [isNone |-> FALSE, pre |-> pre, acc |-> acc]
NonePerm == [isNone |-> TRUE, pre |-> <<>>, acc |-> IDENT]

\* acc & flag, for a one-bit flag.
HasFlag(acc, flag) == (acc \div flag) % 2 = 1

\* An Indexed factor base[indices]; conj marks conjugate(...) around it.
Indexed(base, indices) == [base |-> base, indices |-> indices, conj |-> FALSE]
conjugate(factor) == [factor EXCEPT !.conj = ~factor.conj]

(***************************************************************************)
(* Eldag.                                                                  *)
(***************************************************************************)

\* Eldag.__init__
NewEldag == [edges |-> <<>>, ia |-> <<0>>, symms |-> <<>>, colours |-> <<>>]

\* Placeholder of the state before any Eldag is constructed.
NoEldag == [edges |-> <<>>, ia |-> <<>>, symms |-> <<>>, colours |-> <<>>]

\* Eldag.add_node: the Eldag after the call.
AddNode(g, edges, symm, colour) ==
    [edges |-> g.edges \o edges,
     ia |-> Append(g.ia, Len(g.edges) + Len(edges)),
     symms |-> Append(g.symms, symm),
     colours |-> Append(g.colours, colour)]

\* add_node returning the number of nodes instead of the new node's index.
AddNodeIdxCount(g) == Len(g.symms) + 1

\* Eldag.add_node: the index it returns.
AddNodeIdx(g) == Len(g.symms)

NNodes(g) == Len(g.symms)

\* Edges of node n: edges[ia[n]:ia[n + 1]].
NodeEdges(g, n) == SubSeq(g.edges, g.ia[n + 1] + 1, g.ia[n + 2])

(***************************************************************************)
(* Eldag.int_colour: sort the (colour, index) pairs, group the equal       *)
(* colours, give every member of the i-th group the integer i.             *)
(* A colour is a pair <<tag, key>>, compared as Python compares tuples.    *)
(***************************************************************************)

ColourLess(a, b) == a[1] < b[1] \/ (a[1] = b[1] /\ a[2] < b[2])

\* (v, i) < (w, j) for the pairs int_colour sorts.
PairLess(p, q) == ColourLess(p[1], q[1]) \/ (p[1] = q[1] /\ p[2] < q[2])

RECURSIVE Insert(_, _)
Insert(p, s) ==
    IF s = <<>> THEN <<p>>
    ELSE IF PairLess(p, Head(s)) THEN <<p>> \o s
    ELSE <<Head(s)>> \o Insert(p, Tail(s))

\* int_colour grouping the pairs as they come, without sorting them.
SortedNot(s) == s

RECURSIVE Sorted(_)
\* sorted(...) of a sequence of (colour, index) pairs.
Sorted(s) == IF s = <<>> THEN <<>> ELSE Insert(Head(s), Sorted(Tail(s)))

\* The ordinal enumerate(groupby(...)) gives the group of each sorted pair.
GroupOrdinals(srt) ==
    LET ord[k \in 1..Len(srt)] ==
            IF k = 1 THEN 0
            ELSE IF srt[k][1] = srt[k - 1][1] THEN ord[k - 1] ELSE ord[k - 1] + 1
    IN  ord

\* Eldag.int_colour, for the colours of an Eldag.
IntColour(colours) ==
    LET srt == Sorted([i \in 1..Len(colours) |-> <<colours[i], i - 1>>])
        ord == GroupOrdinals(srt)
    IN  [i \in 1..Len(colours) |->
            ord[CHOOSE k \in 1..Len(srt) : srt[k][2] = i - 1]]

(***************************************************************************)
(* _find_perm and _proc_indices.                                           *)
(***************************************************************************)

\* idxes = {v: i for i, v in enumerate(orig)}: a later entry overwrites.
IdxOf(orig, v) ==
    (CHOOSE i \in 1..Len(orig) :
        orig[i] = v /\ \A k \in (i + 1)..Len(orig) : orig[k] # v) - 1

\* _find_perm(orig, dest) = Perm(idxes[i] for i in dest).
FindPerm(orig, dest) ==
    Perm([j \in 1..Len(dest) |-> IdxOf(orig, dest[j])], IDENT)

\* dumms = {v[0]: i for i, v in enumerate(sums)}: symbol -> SUM node.
Dumms(ss) ==
    [x \in {ss[k].sym : k \in 1..Len(ss)} |->
        (CHOOSE k \in 1..Len(ss) :
            ss[k].sym = x /\ \A m \in (k + 1)..Len(ss) : ss[m].sym # x) - 1]

\* involved: SUM node -> the dummy of the expression bound by it.
Involved(expr, dumms) ==
    [n \in {dumms[x] : x \in Atoms(expr) \cap DOMAIN dumms} |->
        CHOOSE x \in Atoms(expr) \cap DOMAIN dumms : dumms[x] = n]

\* expr.xreplace(substs) with substs = {involved[v]: placeholder i}: the
\* coefficients of placeholders 0..MaxSums-1, then those of the symbols
\* 0..MaxSums that were not replaced.
Form(expr, involved, edges) ==
    [i \in 1..(2 * MaxSums + 1) |->
        IF i <= MaxSums
        THEN IF i <= Len(edges) THEN expr[involved[edges[i]]] ELSE 0
        ELSE LET x == i - MaxSums - 1
             IN  IF \E n \in DOMAIN involved : involved[n] = x THEN 0 ELSE expr[x]]

\* sympy_key(form): a total order on forms, equal only for equal forms.
SympyKey(form) ==
    LET val[k \in 0..Len(form)] ==
            IF k = 0 THEN 0 ELSE val[k - 1] * (MaxCoeff + 1) + form[k]
    IN  val[Len(form)]

\* The state of the loop over the orderings before its first iteration.
ProcStart == [isNone |-> TRUE, form |-> <<>>, order |-> 0, edges |-> <<>>, symms |-> <<>>]

\* One iteration of the loop over itertools.permutations(sum_nodes).
ProcStep(cur, expr, involved, edges) ==
    LET form == Form(expr, involved, edges)
        order == SympyKey(form)
    IN  IF cur.isNone \/ order < cur.order
        THEN [isNone |-> FALSE, form |-> form, order |-> order,
              edges |-> edges, symms |-> <<>>]
        ELSE IF form = cur.form
        THEN [cur EXCEPT !.symms = Append(cur.symms, FindPerm(cur.edges, edges))]
        ELSE cur

RECURSIVE ProcLoop(_, _, _, _, _)
\* The loop over the orderings from the k-th on.
ProcLoop(cur, expr, involved, orderings, k) ==
    IF k > Len(orderings) THEN cur
    ELSE ProcLoop(ProcStep(cur, expr, involved, orderings[k]),
                  expr, involved, orderings, k + 1)

\* The EXPR node _proc_indices adds for one index expression, given the
\* order in which the involved SUM nodes come out of `involved.keys()`.
ProcExpr(expr, dumms, sum_nodes) ==
    LET cur == ProcLoop(ProcStart, expr, Involved(expr, dumms),
                        Permutations(sum_nodes), 1)
    IN  [edges |-> cur.edges,
         symm |-> IF Len(cur.symms) > 0 THEN Group(cur.symms) ELSE None,
         colour |-> <<_EXPR, cur.order>>]

\* The lookup trying the base alone before the (base, arity) pair.
FactorSymmsBaseFirst(base, n_indices, table) ==
    IF n_indices < 2 THEN None
    ELSE IF BaseKey(base) \in table THEN TableGet(BaseKey(base))
    ELSE IF ArityKey(base, n_indices) \in table THEN TableGet(ArityKey(base, n_indices))
    ELSE None

\* The symmetry _build_eldag attaches to a factor.
FactorSymms(base, n_indices, table) ==
    IF n_indices < 2 THEN None
    ELSE IF ArityKey(base, n_indices) \in table THEN TableGet(ArityKey(base, n_indices))
    ELSE IF BaseKey(base) \in table THEN TableGet(BaseKey(base))
    ELSE None

(***************************************************************************)
(* The graph canonicalizer (canonpy.canon_eldag) and the result assembly.  *)
(***************************************************************************)

\* The node orders the canonicalizer may return for n nodes.
NodeOrders(n) == LET ps == Permutations(Range0(n)) IN Elems(ps)

AccValues == {IDENT, NEG, CONJ, NEG + CONJ}

\* What the canonicalizer may return for a node of the given valency.
PermResults(valency) ==
    IF valency < 2 THEN {NonePerm}
    ELSE {NonePerm} \cup
         {Perm(p, a) : p \in NodeOrders(valency), a \in AccValues}

RECURSIVE PermsUpTo(_, _)
\* The results the canonicalizer may return for the first n nodes.
PermsUpTo(g, n) ==
    IF n = 0 THEN {<<>>}
    ELSE {Append(ps, r) : ps \in PermsUpTo(g, n - 1),
                          r \in PermResults(Len(NodeEdges(g, n - 1)))}

\* The per-node results the canonicalizer may return for an Eldag.
CanonPerms(g) == PermsUpTo(g, NNodes(g))

\* The summations walked in node index order instead of canonical order.
SumsResByIndex(ss, order, g) ==
    LET kept == SelectSeq(Range0(NNodes(g)), LAMBDA i : g.colours[i + 1][1] = _SUM)
    IN  [k \in 1..Len(kept) |-> ss[kept[k] + 1]]

\* sums_res = [sums[i] for i in node_order if eldag.colours[i][0] == _SUM]
SumsRes(ss, order, g) ==
    LET kept == SelectSeq(order, LAMBDA i : g.colours[i + 1][1] = _SUM)
    IN  [k \in 1..Len(kept) |-> ss[kept[k] + 1]]

\* The loop body leaving factors of two indices alone (valency <= 2).
FactorResOffByOne(factor, perm) ==
    LET indices == factor.indices
        valency == Len(indices)
    IN  IF valency <= 2 \/ perm.isNone THEN factor
        ELSE LET res == Indexed(factor.base,
                                [i \in 1..valency |-> indices[perm.pre[i] + 1]])
             IN  IF HasFlag(perm.acc, CONJ) THEN conjugate(res) ELSE res

\* The body of the loop over the factors: factor_res for one factor.
FactorRes(factor, perm) ==
    LET indices == factor.indices
        valency == Len(indices)
    IN  IF valency < 2 \/ perm.isNone THEN factor
        ELSE LET res == Indexed(factor.base,
                                [i \in 1..valency |-> indices[perm.pre[i] + 1]])
             IN  IF HasFlag(perm.acc, CONJ) THEN conjugate(res) ELSE res

\* The body of the loop over the factors: the factor by which coeff is
\* multiplied for one factor.
FactorSign(factor, perm) ==
    IF Len(factor.indices) < 2 \/ perm.isNone THEN 1
    ELSE IF HasFlag(perm.acc, NEG) THEN -1 ELSE 1

\* coeff set to -1 (coeff = -1) instead of multiplied by it (coeff *= -1).
CoeffAssigned(fs, idxes, ps, k) ==
    IF \E f \in 1..k : FactorSign(fs[f].factor, ps[idxes[f] + 1]) = -1 THEN -1 ELSE 1

RECURSIVE CoeffAfter(_, _, _, _)
\* coeff after the first k iterations of the loop over the factors.
CoeffAfter(fs, idxes, ps, k) ==
    IF k = 0 THEN 1
    ELSE CoeffAfter(fs, idxes, ps, k - 1)
         * FactorSign(fs[k].factor, ps[idxes[k] + 1])

\* factors_res built by inserting at the front instead of appending.
FactorsResReversed(fs, idxes, ps) ==
    [k \in 1..Len(fs) |->
        FactorRes(fs[Len(fs) + 1 - k].factor, ps[idxes[Len(fs) + 1 - k] + 1])]

\* factors_res after the loop over the factors.
FactorsRes(fs, idxes, ps) ==
    [k \in 1..Len(fs) |-> FactorRes(fs[k].factor, ps[idxes[k] + 1])]

(***************************************************************************)
(* The terms canon_factors is run on.                                      *)
(***************************************************************************)

RangeKeys == {0, 1}
Colours == {0, 1}
Bases == {"T", "U"}

\* The symmetry tables: what is stored for base T.
Tables == SUBSET {BaseKey("T"), ArityKey("T", 1), ArityKey("T", MaxArity)}

\* Summations binding the symbols 1..Len(ranges) over the given ranges.
MkSums(ranges) == [k \in 1..Len(ranges) |-> [sym |-> k, range |-> ranges[k]]]

\* The expression coeff * (symbol x) + free * (symbol 0).
Mono(x, c, free) ==
    [y \in Syms |-> IF y = 0 THEN free ELSE IF y = x THEN c ELSE 0]

\* The j-th index of the f-th factor of a plain term with s summations:
\* one dummy (when there is a summation), told apart from the other
\* indices of its factor by the multiple of symbol 0 added to it.
PlainIndex(s, f, j) ==
    Mono(IF s = 0 THEN 0 ELSE ((f + j) % s) + 1, IF s = 0 THEN 0 ELSE 1,
         (j - 1) % (MaxCoeff + 1))

PlainIndices(s, f, arity) == [j \in 1..arity |-> PlainIndex(s, f, j)]

\* The index summing all the s dummies.
FullIndex(s) == [y \in Syms |-> IF y \in 1..s THEN 1 ELSE 0]

\* Sequences over S of length at most n.
SeqsUpTo(S, n) == UNION {[1..k -> S] : k \in 0..n}

\* What a term is made of: ranges of the summations, and base, colour and
\* indices of each factor.
MkTerm(ranges, bases, colours, indices, table) ==
    [sums |-> MkSums(ranges),
     factors |-> [f \in 1..Len(indices) |->
                    [factor |-> Indexed(bases[f], indices[f]), colour |-> colours[f]]],
     symms |-> table]

NodeCount(s, arities) ==
    LET tot[k \in 0..Len(arities)] ==
            IF k = 0 THEN s ELSE tot[k - 1] + arities[k] + 1
    IN  tot[Len(arities)]

\* The shapes of the terms: the number of summations and the arity of each
\* factor, for terms of at most MaxNodes nodes.
Shapes ==
    {sh \in (0..MaxSums) \X SeqsUpTo(0..MaxArity, MaxFactors) :
        NodeCount(sh[1], sh[2]) <= MaxNodes}

\* Plain terms: every shape, bases T, U, T, ..., one colour, ranges 0, 1, 0, ...
PlainTerm(s, arities) ==
    MkTerm([k \in 1..s |-> k % 2],
           [f \in 1..Len(arities) |-> IF f % 2 = 1 THEN "T" ELSE "U"],
           [f \in 1..Len(arities) |-> 0],
           [f \in 1..Len(arities) |-> PlainIndices(s, f, arities[f])],
           {BaseKey("T")})

PlainTerms == {PlainTerm(sh[1], sh[2]) : sh \in Shapes}

\* Terms of one factor whose first index sums all the dummies.
FullTerm(s, arity) ==
    MkTerm([k \in 1..s |-> 0], <<"T">>, <<0>>,
           << [j \in 1..arity |-> IF j = 1 THEN FullIndex(s) ELSE PlainIndex(s, 1, j)] >>,
           {})

FullTerms ==
    {FullTerm(sa[1], sa[2]) :
        sa \in {x \in (2..MaxSums) \X (1..MaxArity) : x[1] + x[2] + 1 <= MaxNodes}}

\* Terms T[e] for every expression e over the symbol 0 and the s dummies.
ExprsOver(s) == {e \in Exprs : \A x \in Syms : x > s => e[x] = 0}

IndexTerms ==
    UNION {{MkTerm([k \in 1..s |-> 0], <<"T">>, <<0>>, << <<e>> >>, {}) :
                e \in ExprsOver(s)} : s \in 0..MaxSums}


\* Terms T[e1, e2] for all expressions e1, e2 over as many dummies as one
\* index may have without a warning.
PairTerms ==
    {MkTerm([k \in 1..WarnAbove |-> 0], <<"T">>, <<0>>, << <<ee[1], ee[2]>> >>, {}) :
        ee \in ExprsOver(WarnAbove) \X ExprsOver(WarnAbove)}

\* Terms of every shape, range and factor colour.
ColourTerms ==
    UNION {
        {MkTerm(rs, [f \in 1..Len(sh[2]) |-> "T"], cs,
                [f \in 1..Len(sh[2]) |-> PlainIndices(sh[1], f, sh[2][f])], {}) :
            rs \in [1..sh[1] -> RangeKeys], cs \in [1..Len(sh[2]) -> Colours]} :
        sh \in Shapes}

\* Terms of every shape, base and symmetry table.
SymmTerms ==
    UNION {
        {MkTerm([k \in 1..sh[1] |-> 0], bs, [f \in 1..Len(sh[2]) |-> 0],
                [f \in 1..Len(sh[2]) |-> PlainIndices(sh[1], f, sh[2][f])], tb) :
            bs \in [1..Len(sh[2]) -> Bases], tb \in Tables} :
        sh \in Shapes}

\* The terms the whole of canon_factors is run on: the plain terms whose
\* factors come by non-increasing arity, and the terms of a full index.
CanonTerms ==
    {PlainTerm(sh[1], sh[2]) :
        sh \in {x \in Shapes : \A f \in 2..Len(x[2]) : x[2][f] <= x[2][f - 1]}}
    \cup FullTerms

\* The terms the Eldag is built for.
BuildTerms ==
    PlainTerms \cup FullTerms \cup IndexTerms \cup PairTerms \cup ColourTerms \cup SymmTerms

(***************************************************************************)
(* canon_factors.                                                          *)
(***************************************************************************)

InitWith(t) ==
    /\ pc = "start"
    /\ sums = t.sums
    /\ factors = t.factors
    /\ symms = t.symms
    /\ eldag = NoEldag
    /\ factor_idxes = <<>>
    /\ index_nodes = <<>>
    /\ canon_calls = 0
    /\ node_order = <<>>
    /\ perms = <<>>
    /\ sums_res = <<>>
    /\ factors_res = <<>>
    /\ coeff = 1

Init == \E t \in CanonTerms : InitWith(t)

InitBuild == \E t \in BuildTerms : InitWith(t)

\* Where _build_eldag stands once the Eldag has n_sums SUM nodes and the
\* first n_done factors have their nodes.
BuildPc(n_sums, n_done) ==
    IF n_sums < Len(sums) THEN "sums"
    ELSE IF n_done < Len(factors) THEN "factors"
    ELSE "built"

\* canon_factors on the empty term: return sums, factors, 1.
ShortCircuit ==
    /\ pc = "start"
    /\ Len(factors) = 0 /\ Len(sums) = 0
    /\ pc' = "done"
    /\ sums_res' = sums
    /\ factors_res' = factors
    /\ coeff' = 1
    /\ UNCHANGED <<sums, factors, symms, eldag, factor_idxes, index_nodes,
                   canon_calls, node_order, perms>>

\* _build_eldag is entered: eldag = Eldag(), factor_idxes = [].
BuildStart ==
    /\ pc = "start"
    /\ ~(Len(factors) = 0 /\ Len(sums) = 0)
    /\ eldag' = NewEldag
    /\ factor_idxes' = <<>>
    /\ pc' = BuildPc(0, 0)
    /\ UNCHANGED <<sums, factors, symms, index_nodes, canon_calls, node_order,
                   perms, sums_res, factors_res, coeff>>

\* One iteration of `for i in sums`.
AddSumNode ==
    /\ pc = "sums"
    /\ LET i == sums[NNodes(eldag) + 1]
       IN  eldag' = AddNode(eldag, <<>>, None, <<_SUM, i.range>>)
    /\ pc' = BuildPc(NNodes(eldag) + 1, 0)
    /\ UNCHANGED <<sums, factors, symms, factor_idxes, index_nodes, canon_calls,
                   node_order, perms, sums_res, factors_res, coeff>>

\* The factor _build_eldag is processing, and the index _proc_indices is at.
CurFactor == factors[Len(factor_idxes) + 1].factor
CurExpr == CurFactor.indices[Len(index_nodes) + 1]
CurInvolved == Involved(CurExpr, Dumms(sums))

\* One iteration of `for expr in indices` in _proc_indices, for an
\* expression of at most two summed dummies: an EXPR node is added.
ProcIndex ==
    /\ pc = "factors"
    /\ Len(index_nodes) < Len(CurFactor.indices)
    /\ ~(Cardinality(DOMAIN CurInvolved) > WarnAbove)
    /\ \E sum_nodes \in Orderings(DOMAIN CurInvolved) :
        LET node == ProcExpr(CurExpr, Dumms(sums), sum_nodes)
        IN  /\ eldag' = AddNode(eldag, node.edges, node.symm, node.colour)
            /\ index_nodes' = Append(index_nodes, AddNodeIdx(eldag))
    /\ UNCHANGED <<pc, sums, factors, symms, factor_idxes, canon_calls,
                   node_order, perms, sums_res, factors_res, coeff>>

\* The same iteration for an expression of more than two summed dummies:
\* warnings.warn is called with the expression as its category and a
\* string as its stack level, and raises TypeError.
ProcIndexRaise ==
    /\ pc = "factors"
    /\ Len(index_nodes) < Len(CurFactor.indices)
    /\ Cardinality(DOMAIN CurInvolved) > WarnAbove
    /\ pc' = "raised"
    /\ UNCHANGED <<sums, factors, symms, eldag, factor_idxes, index_nodes,
                   canon_calls, node_order, perms, sums_res, factors_res, coeff>>

\* The rest of one iteration of `for factor, colour in factors`, once
\* _proc_indices has returned: the FACTOR node is added.
AddFactorNode ==
    /\ pc = "factors"
    /\ Len(index_nodes) = Len(CurFactor.indices)
    /\ LET colour == factors[Len(factor_idxes) + 1].colour
           factor_symms == FactorSymms(CurFactor.base, Len(CurFactor.indices), symms)
       IN  eldag' = AddNode(eldag, index_nodes, factor_symms, <<_FACTOR, colour>>)
    /\ factor_idxes' = Append(factor_idxes, AddNodeIdx(eldag))
    /\ index_nodes' = <<>>
    /\ pc' = BuildPc(Len(sums), Len(factor_idxes) + 1)
    /\ UNCHANGED <<sums, factors, symms, canon_calls, node_order, perms,
                   sums_res, factors_res, coeff>>

\* eldag.canon() and the assembly of the result.
Canonicalize ==
    /\ pc = "built"
    /\ \E order \in NodeOrders(NNodes(eldag)), ps \in CanonPerms(eldag) :
        /\ node_order' = order
        /\ perms' = ps
        /\ sums_res' = SumsRes(sums, order, eldag)
        /\ factors_res' = FactorsRes(factors, factor_idxes, ps)
        /\ coeff' = CoeffAfter(factors, factor_idxes, ps, Len(factors))
    /\ canon_calls' = canon_calls + 1
    /\ pc' = "done"
    /\ UNCHANGED <<sums, factors, symms, eldag, factor_idxes, index_nodes>>

\* _build_eldag, up to the call of the canonicalizer.
NextBuild ==
    \/ ShortCircuit
    \/ BuildStart
    \/ AddSumNode
    \/ ProcIndex
    \/ ProcIndexRaise
    \/ AddFactorNode

Next == NextBuild \/ Canonicalize

Spec == Init /\ [][Next]_vars

SpecBuild == InitBuild /\ [][NextBuild]_vars

(***************************************************************************)
(* Properties.                                                             *)
(***************************************************************************)

\* canon_factors has returned what it assembled from a canonicalizer result.
Returned == pc = "done" /\ canon_calls = 1

Nodes == 0..(NNodes(eldag) - 1)
Tag(n) == eldag.colours[n + 1][1]
PosIn(order, n) == CHOOSE k \in 1..Len(order) : order[k] = n
Arity(f) == Len(factors[f].factor.indices)
PermOf(f) == perms[factor_idxes[f] + 1]

\* Number of entries of the sequence s equal to e.
Count(s, e) == Cardinality({i \in 1..Len(s) : s[i] = e})

\* res is fac with its indices rearranged, conjugated or not.
MadeFrom(res, fac) ==
    /\ res.base = fac.base
    /\ Len(res.indices) = Len(fac.indices)
    /\ \A i \in 1..Len(fac.indices) :
        Count(res.indices, fac.indices[i]) = Count(fac.indices, fac.indices[i])

\* The factor whose FACTOR node is n.
FactorAt(n) == CHOOSE f \in 1..Len(factor_idxes) : factor_idxes[f] = n

\* The FACTOR-tagged nodes in canonical node order.
FactorNodesInOrder == SelectSeq(node_order, LAMBDA n : Tag(n) = _FACTOR)

\* C1 as stated: the factors canon_factors returns are listed in the order
\* in which their FACTOR-tagged nodes appear in the canonical node order.
C1_FactorsInNodeOrder ==
    Returned =>
        /\ Len(factors_res) = Len(FactorNodesInOrder)
        /\ \A k \in 1..Len(factors_res) :
            MadeFrom(factors_res[k], factors[FactorAt(FactorNodesInOrder[k])].factor)

\* C1 as amended: the factors canon_factors returns are listed in input
\* order, whatever the canonical node order: the factor returned at position
\* f is the input factor f, with its indices rearranged if at all.
C1_FactorsInInputOrder ==
    pc = "done" =>
        /\ Len(factors_res) = Len(factors)
        /\ \A f \in 1..Len(factors) : MadeFrom(factors_res[f], factors[f].factor)

\* Two different factors are returned and the canonical node order lists
\* the node of the second before the node of the first.
C1_Witness ==
    /\ Returned
    /\ Len(factors) >= 2
    /\ ~MadeFrom(factors[2].factor, factors[1].factor)
    /\ PosIn(node_order, factor_idxes[2]) < PosIn(node_order, factor_idxes[1])

\* C2 as stated: an index expression of more than two summed dummies is
\* only warned about; canon_factors never ends in an error because of it.
C2_WarningIsNotFatal == pc # "raised"

\* C3: the summations returned are the original summations of the
\* SUM-tagged nodes in the order node_order meets them: summation k sits at
\* the rank of its node among the SUM nodes of node_order, so the result
\* is a permutation of the input with every (symbol, range) pair unchanged.
C3_SumsInNodeOrder ==
    Returned =>
        /\ Len(sums_res) = Len(sums)
        /\ \A k \in 1..Len(sums) :
            LET before == {n \in Nodes : /\ Tag(n) = _SUM
                                         /\ PosIn(node_order, n) < PosIn(node_order, k - 1)}
            IN  sums_res[Cardinality(before) + 1] = sums[k]

\* The canonical order meets the summations in another order than the
\* input lists them, and meets a summation after a node that is none.
C3_Witness ==
    /\ Returned
    /\ Len(sums) >= 2
    /\ sums_res # sums
    /\ \E n, m \in Nodes : /\ Tag(n) = _SUM /\ Tag(m) # _SUM
                           /\ PosIn(node_order, m) < PosIn(node_order, n)

\* C4: a factor of fewer than two indices, or whose node has no result, is
\* returned unchanged; any other is returned with the same base and, at
\* position i, the original index at position perm(i), conjugated as a
\* whole exactly if the conjugate flag is set.
C4_FactorReindexed ==
    Returned =>
        \A f \in 1..Len(factors) :
            LET fac == factors[f].factor
                res == factors_res[f]
            IN  IF Arity(f) < 2 \/ PermOf(f).isNone
                THEN res = fac
                ELSE /\ res.base = fac.base
                     /\ Len(res.indices) = Arity(f)
                     /\ \A i \in 0..(Arity(f) - 1) :
                            res.indices[i + 1] = fac.indices[PermOf(f).pre[i + 1] + 1]
                     /\ res.conj = (PermOf(f).acc \in {CONJ, NEG + CONJ})

\* A factor of distinct indices is returned with its indices moved and
\* conjugated.
C4_Witness ==
    /\ Returned
    /\ \E f \in 1..Len(factors) :
        /\ Arity(f) >= 2
        /\ ~PermOf(f).isNone
        /\ PermOf(f).acc \in {CONJ, NEG + CONJ}
        /\ factors_res[f].indices # factors[f].factor.indices

\* The factors whose permutation carries the negate flag.
Negated ==
    {f \in 1..Len(factors) :
        Arity(f) >= 2 /\ ~PermOf(f).isNone /\ PermOf(f).acc \in {NEG, NEG + CONJ}}

\* C5: the coefficient is the product of one -1 per factor of at least two
\* indices whose present permutation carries the negate flag: -1 for an
\* odd number of them, +1 for an even number, whatever the conjugate flags.
C5_CoeffIsSignProduct ==
    pc = "done" =>
        /\ coeff \in {1, -1}
        /\ canon_calls = 0 => coeff = 1
        /\ Returned => (coeff = 1 <=> Cardinality(Negated) % 2 = 0)

\* Two factors carry the negate flag, one of them the conjugate flag too.
C5_Witness ==
    /\ Returned
    /\ Cardinality(Negated) = 2
    /\ \E f \in Negated : PermOf(f).acc = NEG + CONJ
    /\ coeff = 1

\* C6: int_colour gives equal integers exactly to equal colour keys, the
\* integers are the group ordinals 0..g-1 in ascending order of key, and
\* so a SUM node is below an EXPR node, which is below a FACTOR node.
C6_IntColour ==
    LET cs == eldag.colours
        ic == IntColour(cs)
        ns == 1..Len(cs)
    IN  /\ Len(ic) = Len(cs)
        /\ \A i, j \in ns : (ic[i] = ic[j]) <=> (cs[i] = cs[j])
        /\ \A i, j \in ns :
            (cs[i][1] < cs[j][1] \/ (cs[i][1] = cs[j][1] /\ cs[i][2] < cs[j][2]))
                => ic[i] < ic[j]
        /\ {ic[i] : i \in ns} = 0..(Cardinality({cs[i] : i \in ns}) - 1)
        /\ \A i, j \in ns : cs[i][1] # cs[j][1] => ic[i] # ic[j]

\* An Eldag with all three tags, two nodes of one key, two keys of one tag,
\* and a node whose key is below the key of an earlier node.
C6_Witness ==
    LET cs == eldag.colours
        ns == 1..Len(cs)
    IN  /\ {cs[i][1] : i \in ns} = {_SUM, _EXPR, _FACTOR}
        /\ \E i, j \in ns : i # j /\ cs[i] = cs[j]
        /\ \E i, j \in ns : cs[i][1] = cs[j][1] /\ cs[i][2] # cs[j][2]
        /\ \E i, j \in ns : i < j /\ ColourLess(cs[j], cs[i])

\* The symmetry of the FACTOR node of factor f.
SymmOfFactor(f) == eldag.symms[factor_idxes[f] + 1]

\* The lookup by (base, arity), then by base, then none.
Looked(f) ==
    LET base == factors[f].factor.base
    IN  IF ArityKey(base, Arity(f)) \in symms THEN TableGet(ArityKey(base, Arity(f)))
        ELSE IF BaseKey(base) \in symms THEN TableGet(BaseKey(base))
        ELSE None

\* C7 as stated: every factor's FACTOR node carries the group stored under
\* (base, arity), else the group stored under base, else no symmetry.
C7_SymmLookup ==
    \A f \in 1..Len(factor_idxes) : SymmOfFactor(f) = Looked(f)

\* C7 as amended: that lookup is made for the factors of at least two
\* indices; the FACTOR node of a factor of fewer than two indices carries
\* no symmetry, whatever the table holds.
C7_SymmLookupFromTwoIndices ==
    \A f \in 1..Len(factor_idxes) :
        /\ Arity(f) >= 2 => SymmOfFactor(f) = Looked(f)
        /\ Arity(f) < 2 => SymmOfFactor(f) = None

\* The table holds both keys for a factor of two or more indices, whose
\* node carries the group of the (base, arity) key; and it holds a key for
\* a factor of fewer than two indices, whose node carries none.
C7_Witness ==
    /\ \E f \in 1..Len(factor_idxes) :
        /\ Arity(f) >= 2
        /\ ArityKey(factors[f].factor.base, Arity(f)) \in symms
        /\ BaseKey(factors[f].factor.base) \in symms
        /\ SymmOfFactor(f).kind = "Symm"
    /\ \E f \in 1..Len(factor_idxes) :
        /\ Arity(f) < 2
        /\ BaseKey(factors[f].factor.base) \in symms
        /\ SymmOfFactor(f) = None

\* C8 as stated: on the empty term canon_factors returns the identity
\* result without an Eldag and without the canonicalizer; on any other
\* term it builds an Eldag and calls the canonicalizer exactly once.
C8_CanonCalledOnce ==
    pc \in {"done", "raised"} =>
        IF Len(sums) = 0 /\ Len(factors) = 0
        THEN /\ sums_res = <<>> /\ factors_res = <<>> /\ coeff = 1
             /\ eldag = NoEldag /\ canon_calls = 0
        ELSE eldag # NoEldag /\ canon_calls = 1

\* The indices _proc_indices has processed: <<f, j>> for index j of factor f.
Processed ==
    {fj \in (1..Len(factors)) \X (1..MaxNodes) :
        /\ fj[2] <= Arity(fj[1])
        /\ \/ fj[1] <= Len(factor_idxes)
           \/ fj[1] = Len(factor_idxes) + 1 /\ fj[2] <= Len(index_nodes)}

\* The EXPR node added for a processed index.
ExprNode(f, j) ==
    IF f <= Len(factor_idxes)
    THEN factor_idxes[f] - Arity(f) + j - 1
    ELSE index_nodes[j]

\* The node n is what C9 says of the expression, for the orderings
\* enumerated from sum_nodes: its edges are the first ordering whose form
\* has the least key of all, and its symmetry has one permutation p, with
\* winner[p[i]] = other[i], for each later ordering of exactly that form.
SelectedFrom(n, expr, sum_nodes) ==
    LET involved == Involved(expr, Dumms(sums))
        ords == Permutations(sum_nodes)
        form(k) == Form(expr, involved, ords[k])
        key(k) == SympyKey(form(k))
        w == CHOOSE k \in 1..Len(ords) :
                /\ \A m \in 1..Len(ords) : key(k) <= key(m)
                /\ \A m \in 1..(k - 1) : key(k) < key(m)
        ties == SelectSeq([m \in 1..Len(ords) |-> m],
                          LAMBDA m : m > w /\ form(m) = form(w))
        symm == eldag.symms[n + 1]
    IN  /\ NodeEdges(eldag, n) = ords[w]
        /\ eldag.colours[n + 1] = <<_EXPR, key(w)>>
        /\ IF Len(ties) = 0 THEN symm = None
           ELSE /\ symm.kind = "Group"
                /\ Len(symm.gens) = Len(ties)
                /\ \A r \in 1..Len(ties) :
                    /\ Len(symm.gens[r].pre) = Len(sum_nodes)
                    /\ \A i \in 1..Len(sum_nodes) :
                        ords[w][symm.gens[r].pre[i] + 1] = ords[ties[r]][i]

\* The node of a processed index is the selected one, for one of the
\* orders in which its involved SUM nodes may be enumerated.
Selected(f, j) ==
    LET expr == factors[f].factor.indices[j]
    IN  \E sum_nodes \in Orderings(DOMAIN Involved(expr, Dumms(sums))) :
            SelectedFrom(ExprNode(f, j), expr, sum_nodes)

\* C9 as stated: every index expression gets its EXPR node, with the edges
\* of the first ordering of least key and the symmetry of the later
\* orderings of exactly the winning form.
C9_EveryIndexSelected ==
    /\ pc # "raised"
    /\ \A fj \in Processed : Selected(fj[1], fj[2])

\* What holds of C9: the EXPR nodes that are added are the selected ones
\* (an expression of more than two summed dummies gets none).
C9_AddedNodesSelected == \A fj \in Processed : Selected(fj[1], fj[2])

\* A factor with an index that has a symmetry and an index that has none
\* and whose winning ordering lists the later SUM node first.
C9_AddedWitness ==
    \E f \in 1..Len(factor_idxes) : \E j, k \in 1..Arity(f) :
        /\ Len(NodeEdges(eldag, ExprNode(f, j))) = 2
        /\ eldag.symms[ExprNode(f, j) + 1].kind = "Group"
        /\ Len(NodeEdges(eldag, ExprNode(f, k))) = 2
        /\ eldag.symms[ExprNode(f, k) + 1] = None
        /\ NodeEdges(eldag, ExprNode(f, k))[1] > NodeEdges(eldag, ExprNode(f, k))[2]

\* C10: no edge is a forward reference.  The SUM nodes are the nodes
\* 0..|sums|-1 in input order, without edges; the edges of an EXPR node
\* are SUM nodes; the edges of the FACTOR node of factor f, which is
\* factor_idxes[f], are the EXPR nodes of its indices, in index order.
C10_EldagShape ==
    /\ \A n \in Nodes : \A i \in 1..Len(NodeEdges(eldag, n)) :
        NodeEdges(eldag, n)[i] \in 0..(n - 1)
    /\ \A n \in Nodes : (Tag(n) = _SUM) <=> (n < Len(sums))
    /\ \A n \in Nodes : n < Len(sums) =>
        /\ eldag.colours[n + 1] = <<_SUM, sums[n + 1].range>>
        /\ NodeEdges(eldag, n) = <<>>
    /\ \A n \in Nodes : Tag(n) = _EXPR =>
        \A i \in 1..Len(NodeEdges(eldag, n)) : Tag(NodeEdges(eldag, n)[i]) = _SUM
    /\ \A f \in 1..Len(factor_idxes) :
        LET n == factor_idxes[f]
            edges == NodeEdges(eldag, n)
        IN  /\ n \in Nodes
            /\ eldag.colours[n + 1] = <<_FACTOR, factors[f].colour>>
            /\ Len(edges) = Arity(f)
            /\ \A j \in 1..Arity(f) :
                /\ edges[j] = n - Arity(f) + j - 1
                /\ Tag(edges[j]) = _EXPR
                /\ Elems(NodeEdges(eldag, edges[j])) =
                    DOMAIN Involved(factors[f].factor.indices[j], Dumms(sums))
            /\ \A h \in 1..(f - 1) : factor_idxes[h] < n - Arity(f)
    /\ pc \in {"built", "done"} =>
        /\ Len(factor_idxes) = Len(factors)
        /\ NNodes(eldag) = NodeCount(Len(sums), [f \in 1..Len(factors) |-> Arity(f)])

\* A built Eldag of two summations and two factors, the second of two
\* indices, with indices that have a dummy.
C10_Witness ==
    /\ pc = "built"
    /\ Len(sums) >= 2
    /\ Len(factors) >= 2
    /\ Arity(2) >= 2
    /\ \E n \in Nodes : Tag(n) = _EXPR /\ Len(NodeEdges(eldag, n)) > 0

====
